---------------------------- MODULE Spec2Model ----------------------------
(***************************************************************************)
(* Fiwix buffer cache (fs/buffer.c): the buffer table, the circular free   *)
(* list, the dirty list, the chained hash table, and the kernel tasks that *)
(* run bread/bwrite/brelse, sync_buffers, invalidate_buffers and           *)
(* reclaim_buffers.  The kernel is not preemptive: a task runs from one    *)
(* suspension point (sleep(), device I/O, frame allocation) to the next,   *)
(* and that stretch of code is one step of the model.                      *)
(***************************************************************************)
EXTENDS Integers, FiniteSets, Sequences, TLC

(* ------------------------------ bounds -------------------------------- *)
NR_BUFFERS == 3
NR_BUF_HASH == 1
NR_BUF_RECLAIM == 2
NTASKS == 2
NDEVS == 2
NBLOCKS == 1
NRECBLOCKS == 3
MaxCalls == 7
MaxSeqCalls == 8
NR_PAGES == 4
NR_RESERVED == 1
NR_PAGE_HASH == 1
NINODES == 1
NFILEPAGES == 2
BLKSIZE == 2
BlocksPerPage == 2
MaxByte == 2
MaxPageCalls == 5
MaxFileCalls == 3

(* kstat.dirty and kstat.buffers move in steps of PAGE_SIZE / 1024 *)
KIB_PER_PAGE == 4

NULL == 0
Buffers == 1..NR_BUFFERS
Tasks == 1..NTASKS
Devs == 1..NDEVS
Blocks == 1..NBLOCKS
RecBlocks == 1..NRECBLOCKS
RecDevs == {1}
BlockSizes == {1024}

\* struct page page_table[NR_PAGES]; the last NR_RESERVED frames lie inside
\* the kernel image or outside the BIOS memory map.
Pages == 1..NR_PAGES
ReservedPages == (NR_PAGES - NR_RESERVED + 1)..NR_PAGES
\* One device holds the files; a file has at most NFILEPAGES pages of
\* PAGE_SIZE bytes, each made of BlocksPerPage blocks of BLKSIZE bytes.
Inodes == 1..NINODES
InodeDev(inode) == 1
PAGE_SIZE == BLKSIZE * BlocksPerPage
MaxFileSize == NFILEPAGES * PAGE_SIZE
FileBlocks == 1..(NINODES * NFILEPAGES * BlocksPerPage)
Bytes == 0..MaxByte

VARIABLES
    buffer_table,       \* struct buffer buffer_table[NR_BUFFERS]
    buffer_head,        \* head of the circular free list
    buffer_dirty_head,  \* head of the dirty list
    buffer_hash_table,  \* bucket -> first buffer of the chain
    kstat,              \* [dirty, buffers] in KiB
    sync_resource,      \* TRUE while a sync_buffers holds the resource
    proc,               \* the kernel tasks: where each one is suspended
    budget,             \* kernel calls and failed requests the run has left
    obs,                \* what an observer of the calls has recorded
    page_table,         \* struct page page_table[NR_PAGES]
    page_head,          \* head of the circular free list of pages
    page_hash_table,    \* bucket -> first page of the chain
    page_kstat,         \* kstat.free_pages (pages) and kstat.cached (KiB)
    files,              \* i_size and lock of every inode, bytes of every block
    page_proc           \* the tasks inside mm/page.c and fs/minix/file.c

pvars == <<page_table, page_head, page_hash_table, page_kstat, files,
           page_proc>>

bvars == <<buffer_table, buffer_head, buffer_dirty_head, buffer_hash_table,
           kstat, sync_resource, proc>>

vars == <<buffer_table, buffer_head, buffer_dirty_head, buffer_hash_table,
          kstat, sync_resource, proc, budget, obs, page_table, page_head,
          page_hash_table, page_kstat, files, page_proc>>

(* ------------------------- kernel data as a value ---------------------- *)
\* The mutable kernel data gathered in one record, so that the C functions
\* become operators from one such record to the next.
K == [tab |-> buffer_table, head |-> buffer_head, dhead |-> buffer_dirty_head,
      hash |-> buffer_hash_table, kstat |-> kstat, sres |-> sync_resource]

Commit(k) ==
    /\ buffer_table' = k.tab
    /\ buffer_head' = k.head
    /\ buffer_dirty_head' = k.dhead
    /\ buffer_hash_table' = k.hash
    /\ kstat' = k.kstat
    /\ sync_resource' = k.sres
    /\ UNCHANGED pvars

\* buf->field = v
Set(k, b, field, v) == [k EXCEPT !.tab[b][field] = v]

EmptyBuffer ==
    [dev |-> 0, block |-> 0, size |-> 0, data |-> FALSE,
     valid |-> FALSE, dirty |-> FALSE, locked |-> FALSE,
     prev_hash |-> NULL, next_hash |-> NULL,
     prev_free |-> NULL, next_free |-> NULL,
     prev_dirty |-> NULL, next_dirty |-> NULL]

(* ------------------------------ hashing -------------------------------- *)
RECURSIVE Xor(_, _)
Xor(a, b) ==
    IF a = 0 THEN b
    ELSE IF b = 0 THEN a
    ELSE (((a % 2) + (b % 2)) % 2) + 2 * Xor(a \div 2, b \div 2)

BUFFER_HASH(dev, block) == Xor(dev, block) % NR_BUF_HASH

insert_to_hash(k, b) ==
    LET i == BUFFER_HASH(k.tab[b].dev, k.tab[b].block)
        h == k.hash[i]
    IN  IF h = NULL
        THEN [Set(Set(k, b, "prev_hash", NULL), b, "next_hash", NULL)
                 EXCEPT !.hash[i] = b]
        ELSE LET k1 == Set(k, b, "prev_hash", NULL)
                 k2 == Set(k1, b, "next_hash", h)
                 k3 == Set(k2, h, "prev_hash", b)
             IN  [k3 EXCEPT !.hash[i] = b]

\* Is b met when the chain is walked from x along next_hash (at most n hops)?
RECURSIVE OnChain(_, _, _, _)
OnChain(k, x, b, n) ==
    IF x = NULL \/ n = 0 THEN FALSE
    ELSE IF x = b THEN TRUE
    ELSE OnChain(k, k.tab[x].next_hash, b, n - 1)

remove_from_hash(k, b) ==
    LET i == BUFFER_HASH(k.tab[b].dev, k.tab[b].block)
    IN  IF ~OnChain(k, k.hash[i], b, NR_BUFFERS) THEN k
        ELSE LET nx == k.tab[b].next_hash
                 k1 == IF nx # NULL
                       THEN Set(k, nx, "prev_hash", k.tab[b].prev_hash)
                       ELSE k
                 pv == k1.tab[b].prev_hash
                 k2 == IF pv # NULL
                       THEN Set(k1, pv, "next_hash", k1.tab[b].next_hash)
                       ELSE k1
             IN  IF k.hash[i] = b
                 THEN [k2 EXCEPT !.hash[i] = k2.tab[b].next_hash]
                 ELSE k2

RECURSIVE SearchChain(_, _, _, _, _, _)
SearchChain(k, x, dev, block, size, n) ==
    IF x = NULL \/ n = 0 THEN NULL
    ELSE IF k.tab[x].dev = dev /\ k.tab[x].block = block /\ k.tab[x].size = size
         THEN x
         ELSE SearchChain(k, k.tab[x].next_hash, dev, block, size, n - 1)

search_buffer_hash(k, dev, block, size) ==
    SearchChain(k, k.hash[BUFFER_HASH(dev, block)], dev, block, size, NR_BUFFERS)

(* ----------------------------- dirty list ------------------------------ *)
insert_on_dirty_list(k, b) ==
    IF k.tab[b].prev_dirty # NULL \/ k.tab[b].next_dirty # NULL THEN k
    ELSE LET k1 == IF k.dhead # NULL
                   THEN Set(Set(k, b, "next_dirty", k.dhead),
                            k.dhead, "prev_dirty", b)
                   ELSE k
         IN  [k1 EXCEPT !.dhead = b, !.kstat.dirty = @ + KIB_PER_PAGE]

remove_from_dirty_list(k, b) ==
    LET nx == k.tab[b].next_dirty
        k1 == IF nx # NULL THEN Set(k, nx, "prev_dirty", k.tab[b].prev_dirty)
              ELSE k
        pv == k1.tab[b].prev_dirty
        k2 == IF pv # NULL THEN Set(k1, pv, "next_dirty", k1.tab[b].next_dirty)
              ELSE k1
        k3 == IF b = k2.dhead THEN [k2 EXCEPT !.dhead = k2.tab[b].next_dirty]
              ELSE k2
        k4 == Set(Set(k3, b, "prev_dirty", NULL), b, "next_dirty", NULL)
        k5 == Set(k4, b, "dirty", FALSE)
    IN  [k5 EXCEPT !.kstat.dirty = @ - KIB_PER_PAGE]

(* ------------------------------ free list ------------------------------ *)
\* insert_on_free_list() without the test of BUFFER_VALID (lines 136-142):
\* every entry goes to the tail.
insert_on_free_list_tail(k, b) ==
    IF k.head = NULL
    THEN [Set(Set(k, b, "prev_free", b), b, "next_free", b) EXCEPT !.head = b]
    ELSE LET k1 == Set(k, b, "next_free", k.head)
             k2 == Set(k1, b, "prev_free", k1.tab[k1.head].prev_free)
             k3 == Set(k2, k2.tab[k2.head].prev_free, "next_free", b)
         IN  Set(k3, k3.head, "prev_free", b)

insert_on_free_list(k, b) ==
    IF k.head = NULL
    THEN [Set(Set(k, b, "prev_free", b), b, "next_free", b) EXCEPT !.head = b]
    ELSE LET k1 == Set(k, b, "next_free", k.head)
             k2 == Set(k1, b, "prev_free", k1.tab[k1.head].prev_free)
             k3 == Set(k2, k2.tab[k2.head].prev_free, "next_free", b)
             k4 == Set(k3, k3.head, "prev_free", b)
         IN  IF ~k4.tab[b].valid THEN [k4 EXCEPT !.head = b] ELSE k4

remove_from_free_list(k, b) ==
    IF k.head = NULL THEN k
    ELSE LET k1 == Set(k, k.tab[b].prev_free, "next_free", k.tab[b].next_free)
             k2 == Set(k1, k1.tab[b].next_free, "prev_free", k1.tab[b].prev_free)
             k3 == IF b = k2.head THEN [k2 EXCEPT !.head = k2.tab[b].next_free]
                   ELSE k2
         IN  IF k3.head = k3.tab[k3.head].next_free
             THEN [k3 EXCEPT !.head = NULL]
             ELSE k3


(* ------------------------------- tasks --------------------------------- *)
\* A task between two kernel calls: it holds at most the buffer bread gave it.
IdleProc ==
    [pc |-> "idle", sleep |-> "none", dev |-> 0, block |-> 0, size |-> 0,
     buf |-> NULL, next |-> NULL, first |-> NULL, reclaimed |-> 0,
     held |-> NULL]

\* What a stretch of kernel code leaves behind: the kernel data, the task and
\* the wait channels it called wakeup() on.
Res(k, p, wake) == [k |-> k, p |-> p, wake |-> wake]

\* sleep(channel, PROC_UNINTERRUPTIBLE): the task resumes at pc once woken.
Sleep(k, p, pc, chan, wake) ==
    Res(k, [p EXCEPT !.pc = pc, !.sleep = chan], wake)

\* The call returns to the task's caller.
Return(k, p, held, wake) ==
    Res(k, [IdleProc EXCEPT !.held = held], wake)

(* ----------------------------- brelse ---------------------------------- *)
brelse(k, b) ==
    LET k1 == IF k.tab[b].dirty THEN insert_on_dirty_list(k, b) ELSE k
        k2 == insert_on_free_list(k1, b)
    IN  Set(k2, b, "locked", FALSE)

BrelseWakes == {"get_free_buffer", "buffer_wait"}

(* ------------------------------ bread ---------------------------------- *)
\* bread() had it trusted every entry getblk() returns: no read_block.
BreadGotTrusted(k, p, wake) ==
    Return(k, p, p.buf, wake)

\* bread() once getblk() has returned p.buf (line 312).
BreadGot(k, p, wake) ==
    IF ~k.tab[p.buf].valid
    THEN Res(k, [p EXCEPT !.pc = "bread_read"], wake)
    ELSE Return(k, p, p.buf, wake)

\* getblk(), lines 289-297: the entry is rebound to the requested key.
GetblkBind(k, p, wake) ==
    LET b == p.buf
        k1 == remove_from_hash(k, b)
        k2 == Set(Set(Set(k1, b, "dev", p.dev), b, "block", p.block),
                  b, "size", p.size)
        k3 == insert_to_hash(k2, b)
    IN  BreadGot(Set(k3, b, "valid", FALSE), p, wake)

\* getblk(), lines 276-287, with p.buf fresh from get_free_buffer().
GetblkGot(k, p, wake) ==
    IF k.tab[p.buf].dirty
    THEN Res(k, [p EXCEPT !.pc = "getblk_write"], wake)
    ELSE IF ~k.tab[p.buf].data
         THEN Res(k, [p EXCEPT !.pc = "getblk_kmalloc"], wake)
         ELSE GetblkBind(k, p, wake)

\* get_free_buffer() had it forgotten remove_from_free_list(): the head is
\* locked and handed out while still linked.
get_free_buffer_linked(k, p, pcsleep, wake) ==
    LET b == k.head
    IN  IF k.tab[b].locked
        THEN [got |-> FALSE,
              res |-> Sleep(k, p, pcsleep, "buffer_wait", wake)]
        ELSE [got |-> TRUE,
              res |-> Res(Set(k, b, "locked", TRUE), [p EXCEPT !.buf = b], wake)]

\* get_free_buffer(), the loop of lines 189-205 with a non-null buffer_head.
\* got is TRUE when p.buf was taken off the list and locked.
get_free_buffer(k, p, pcsleep, wake) ==
    LET b == k.head
    IN  IF k.tab[b].locked
        THEN [got |-> FALSE,
              res |-> Sleep(k, p, pcsleep, "buffer_wait", wake)]
        ELSE [got |-> TRUE,
              res |-> Res(Set(remove_from_free_list(k, b), b, "locked", TRUE),
                          [p EXCEPT !.buf = b], wake)]

\* getblk(), one pass of the for(;;) of lines 256-274.
getblk(k, p) ==
    LET b == search_buffer_hash(k, p.dev, p.block, p.size)
    IN  IF b # NULL
        THEN IF k.tab[b].locked
             THEN Sleep(k, p, "getblk", "buffer_wait", {})
             ELSE BreadGot(remove_from_free_list(Set(k, b, "locked", TRUE), b),
                           [p EXCEPT !.buf = b], {})
        ELSE IF k.head = NULL
             THEN Sleep(k, p, "getblk", "get_free_buffer", {})
             ELSE LET g == get_free_buffer(k, p, "gfb_getblk", {})
                  IN  IF g.got THEN GetblkGot(g.res.k, g.res.p, {})
                      ELSE g.res


(* --------------------------- sync_buffers ------------------------------ *)
\* sync_one_buffer() after write_block() has returned (lines 219-227).  Every
\* device of the model is registered and has a write_block method.
sync_one_buffer(k, b, ok) ==
    IF ok THEN remove_from_dirty_list(k, b) ELSE k

\* The same had buffer_wait() set LOCKED without waiting for the owner.
SyncWaitBlind(k, p, wake) ==
    Res(Set(k, p.buf, "locked", TRUE), [p EXCEPT !.pc = "sync_write"], wake)

\* buffer_wait(p.buf) followed by the call of write_block (lines 364-365).
SyncWait(k, p, wake) ==
    IF k.tab[p.buf].locked
    THEN Sleep(k, p, "sync_wait", "buffer_wait", wake)
    ELSE Res(Set(k, p.buf, "locked", TRUE), [p EXCEPT !.pc = "sync_write"], wake)

\* The while(buf) of lines 361-371.  fuel counts the entries skipped in a row:
\* more than NR_BUFFERS of them means the walk is caught in a cycle of the
\* dirty list and never ends.
RECURSIVE SyncLoop(_, _, _, _)
SyncLoop(k, p, wake, fuel) ==
    IF p.buf = NULL
    THEN Return([k EXCEPT !.sres = FALSE], p, NULL, wake \cup {"sync_resource"})
    ELSE LET p1 == [p EXCEPT !.next = k.tab[p.buf].next_dirty]
         IN  IF p.dev = 0 \/ k.tab[p.buf].dev = p.dev
             THEN SyncWait(k, p1, wake)
             ELSE IF fuel = 0
                  THEN Res(k, [p1 EXCEPT !.pc = "spin"], wake)
                  ELSE SyncLoop(k, [p1 EXCEPT !.buf = p1.next], wake, fuel - 1)

\* lock_resource(&sync_resource) and the loop behind it (line 360).
SyncLock(k, p) ==
    IF k.sres
    THEN Sleep(k, p, "sync_lock", "sync_resource", {})
    ELSE SyncLoop([k EXCEPT !.sres = TRUE], p, {}, NR_BUFFERS)

(* ------------------------ invalidate_buffers --------------------------- *)
RECURSIVE InvalidateFrom(_, _, _)
InvalidateFrom(k, dev, n) ==
    IF n > NR_BUFFERS THEN k
    ELSE IF ~k.tab[n].locked /\ k.tab[n].dev = dev
         THEN LET k1 == Set(k, n, "locked", TRUE)        \* buffer_wait(buf)
                  k2 == remove_from_hash(k1, n)
                  k3 == Set(Set(k2, n, "valid", FALSE), n, "locked", FALSE)
              IN  InvalidateFrom(k3, dev, n + 1)
         ELSE InvalidateFrom(k, dev, n + 1)

invalidate_buffers(k, dev) == InvalidateFrom(k, dev, 1)

(* ------------------------- reclaim_buffers ----------------------------- *)
\* reclaim_buffers() returning without the wakeup of line 453.
ReclaimEndSilent(k, p, wake) ==
    LET r == Return(k, p, NULL, wake \cup {"buffer_wait"})
    IN  [k |-> r.k, p |-> r.p, wake |-> r.wake, ret |-> p.reclaimed]

\* Lines 445-456; ret is the value returned to the caller.
ReclaimEnd(k, p, wake) ==
    LET r == Return(k, p, NULL,
                    wake \cup {"buffer_wait"}
                         \cup (IF p.reclaimed > 0
                                  /\ p.reclaimed <= NR_BUF_RECLAIM
                               THEN {"get_free_page"} ELSE {}))
    IN  [k |-> r.k, p |-> r.p, wake |-> r.wake, ret |-> p.reclaimed]

\* fuel counts the passes of the for(;;) made without suspending: more than
\* 2 * NR_BUFFERS + 2 of them means that neither `first` nor a frame to free
\* is left on the list and the loop never ends.
RECURSIVE ReclaimLoop(_, _, _, _)
RECURSIVE ReclaimBody(_, _, _, _)

\* reclaim_buffers() without the test of line 437: it stops only when `first`
\* comes round again.
ReclaimBodyUncapped(k, p, wake, fuel) ==
    LET b == p.buf
        k1 == Set(k, b, "valid", TRUE)
        w == wake \cup BrelseWakes
    IN  IF p.first # NULL /\ p.first = b
        THEN ReclaimEnd(brelse(k1, b), p, w)
        ELSE LET p1 == IF p.first = NULL THEN [p EXCEPT !.first = b] ELSE p
                 freed == k1.tab[b].data
                 k2 == IF freed
                       THEN [remove_from_hash(Set(k1, b, "data", FALSE), b)
                                EXCEPT !.kstat.buffers = @ - KIB_PER_PAGE]
                       ELSE k1
                 p2 == IF freed THEN [p1 EXCEPT !.reclaimed = @ + 1] ELSE p1
             IN  IF fuel = 0
                 THEN Res(brelse(k2, b), [p2 EXCEPT !.pc = "spin"], w)
                 ELSE ReclaimLoop(brelse(k2, b), p2, w, fuel - 1)

\* Lines 420-443, with p.buf popped and written back if it was dirty.
ReclaimBody(k, p, wake, fuel) ==
    LET b == p.buf
        k1 == Set(k, b, "valid", TRUE)
        w == wake \cup BrelseWakes
    IN  IF p.first # NULL /\ p.first = b
        THEN ReclaimEnd(brelse(k1, b), p, w)
        ELSE LET p1 == IF p.first = NULL THEN [p EXCEPT !.first = b] ELSE p
                 freed == k1.tab[b].data
                 k2 == IF freed
                       THEN [remove_from_hash(Set(k1, b, "data", FALSE), b)
                                EXCEPT !.kstat.buffers = @ - KIB_PER_PAGE]
                       ELSE k1
                 p2 == IF freed THEN [p1 EXCEPT !.reclaimed = @ + 1] ELSE p1
             IN  IF freed /\ p2.reclaimed = NR_BUF_RECLAIM
                 THEN ReclaimEnd(brelse(k2, b), p2, w)
                 ELSE IF fuel = 0
                      THEN Res(brelse(k2, b), [p2 EXCEPT !.pc = "spin"], w)
                      ELSE ReclaimLoop(brelse(k2, b), p2, w, fuel - 1)

\* Lines 416-418.
ReclaimGot(k, p, wake, fuel) ==
    IF k.tab[p.buf].dirty
    THEN Res(k, [p EXCEPT !.pc = "reclaim_write"], wake)
    ELSE ReclaimBody(k, p, wake, fuel)

\* Lines 410-414.
ReclaimLoop(k, p, wake, fuel) ==
    IF k.head = NULL
    THEN Sleep(k, p, "reclaim", "get_free_buffer", wake)
    ELSE LET g == get_free_buffer(k, p, "gfb_reclaim", wake)
         IN  IF g.got THEN ReclaimGot(g.res.k, g.res.p, g.res.wake, fuel)
             ELSE g.res

ReclaimFuel == 2 * NR_BUFFERS + 2


(* ------------------------------ mm/page.c ------------------------------ *)
\* The page cache data gathered in one record.
M == [tab |-> page_table, head |-> page_head, hash |-> page_hash_table,
      kstat |-> page_kstat]

PCommit(m) ==
    /\ page_table' = m.tab
    /\ page_head' = m.head
    /\ page_hash_table' = m.hash
    /\ page_kstat' = m.kstat

\* pg->field = v
PSet(m, pg, field, v) == [m EXCEPT !.tab[pg][field] = v]

EmptyPage ==
    [inode |-> 0, offset |-> 0, dev |-> 0, count |-> 0,
     locked |-> FALSE, reserved |-> FALSE,
     data |-> [i \in 1..PAGE_SIZE |-> 0],
     prev_hash |-> NULL, next_hash |-> NULL,
     prev_free |-> NULL, next_free |-> NULL]

PAGE_HASH(inode, offset) == Xor(inode, offset) % NR_PAGE_HASH

page_insert_to_hash(m, pg) ==
    LET i == PAGE_HASH(m.tab[pg].inode, m.tab[pg].offset)
        h == m.hash[i]
        m1 == IF h = NULL
              THEN [PSet(PSet(m, pg, "prev_hash", NULL), pg, "next_hash", NULL)
                       EXCEPT !.hash[i] = pg]
              ELSE [PSet(PSet(PSet(m, pg, "prev_hash", NULL),
                              pg, "next_hash", h),
                         h, "prev_hash", pg)
                       EXCEPT !.hash[i] = pg]
    IN  [m1 EXCEPT !.kstat.cached = @ + KIB_PER_PAGE]

\* The while loop of remove_from_hash(): pg is met from x in at most n hops.
RECURSIVE PageOnChain(_, _, _, _)
PageOnChain(m, x, pg, n) ==
    IF x = NULL \/ n = 0 THEN FALSE
    ELSE IF x = pg THEN TRUE
    ELSE PageOnChain(m, m.tab[x].next_hash, pg, n - 1)

page_remove_from_hash(m, pg) ==
    LET i == PAGE_HASH(m.tab[pg].inode, m.tab[pg].offset)
        nx == m.tab[pg].next_hash
        pv == m.tab[pg].prev_hash
    IN  IF m.tab[pg].inode = 0 THEN m
        ELSE IF ~PageOnChain(m, m.hash[i], pg, NR_PAGES) THEN m
        ELSE LET m1 == IF nx # NULL THEN PSet(m, nx, "prev_hash", pv) ELSE m
                 m2 == IF pv # NULL THEN PSet(m1, pv, "next_hash", nx) ELSE m1
                 m3 == IF m.hash[i] = pg THEN [m2 EXCEPT !.hash[i] = nx]
                       ELSE m2
             IN  [m3 EXCEPT !.kstat.cached = @ - KIB_PER_PAGE]

page_insert_on_free_list(m, pg) ==
    LET m1 == IF m.head = NULL
              THEN [PSet(PSet(m, pg, "prev_free", pg), pg, "next_free", pg)
                       EXCEPT !.head = pg]
              ELSE LET tail == m.tab[m.head].prev_free
                       a == PSet(m, pg, "next_free", m.head)
                       b == PSet(a, pg, "prev_free", tail)
                       c == PSet(b, b.tab[m.head].prev_free, "next_free", pg)
                   IN  PSet(c, m.head, "prev_free", pg)
    IN  [m1 EXCEPT !.kstat.free_pages = @ + 1]

page_remove_from_free_list(m, pg) ==
    IF m.kstat.free_pages = 0 THEN m
    ELSE LET a == PSet(m, m.tab[pg].prev_free, "next_free",
                       m.tab[pg].next_free)
             b == PSet(a, a.tab[pg].next_free, "prev_free",
                       a.tab[pg].prev_free)
             c == [b EXCEPT !.kstat.free_pages = @ - 1]
             d == IF pg = c.head THEN [c EXCEPT !.head = c.tab[pg].next_free]
                  ELSE c
         IN  IF d.kstat.free_pages = 0 THEN [d EXCEPT !.head = NULL] ELSE d

\* get_free_page(), lines 174-185, with a page on the free list.
page_take_head(m) ==
    LET pg == m.head
        a == page_remove_from_hash(page_remove_from_free_list(m, pg), pg)
    IN  [m |-> [a EXCEPT !.tab[pg].count = 1, !.tab[pg].inode = 0,
                         !.tab[pg].offset = 0, !.tab[pg].dev = 0],
         pg |-> pg]

\* The scan of search_page_hash(): the first page from x bound to the key.
RECURSIVE PageSearchChain(_, _, _, _, _, _)
PageSearchChain(m, x, inode, offset, dev, n) ==
    IF x = NULL \/ n = 0 THEN NULL
    ELSE IF m.tab[x].inode = inode /\ m.tab[x].offset = offset
            /\ m.tab[x].dev = dev
         THEN x
         ELSE PageSearchChain(m, m.tab[x].next_hash, inode, offset, dev, n - 1)

\* search_page_hash() without line 199: a hit leaves the page on the free
\* list.
search_page_hash_linked(m, inode, offset, dev) ==
    LET pg == PageSearchChain(m, m.hash[PAGE_HASH(inode, offset)], inode,
                              offset, dev, NR_PAGES)
    IN  IF pg = NULL THEN [m |-> m, pg |-> NULL]
        ELSE [m |-> [m EXCEPT !.tab[pg].count = @ + 1], pg |-> pg]

search_page_hash(m, inode, offset, dev) ==
    LET pg == PageSearchChain(m, m.hash[PAGE_HASH(inode, offset)], inode,
                              offset, dev, NR_PAGES)
    IN  IF pg = NULL THEN [m |-> m, pg |-> NULL]
        ELSE LET a == IF m.tab[pg].count = 0
                      THEN page_remove_from_free_list(m, pg) ELSE m
             IN  [m |-> [a EXCEPT !.tab[pg].count = @ + 1], pg |-> pg]

\* release_page(page): the new data and whether &get_free_page is woken up.
release_page(m, pg) ==
    IF m.tab[pg].count = 0 THEN [m |-> m, wake |-> FALSE]
    ELSE IF m.tab[pg].count - 1 > 0
         THEN [m |-> [m EXCEPT !.tab[pg].count = @ - 1], wake |-> FALSE]
         ELSE LET a == page_insert_on_free_list(
                           [m EXCEPT !.tab[pg].count = @ - 1], pg)
                  b == IF a.tab[pg].inode = 0 THEN [a EXCEPT !.head = pg]
                       ELSE a
              IN  [m |-> b, wake |-> b.kstat.free_pages > NR_BUF_RECLAIM]

(* ----------------------- tasks in the page cache ----------------------- *)
\* Wait channels: the address passed to sleep() and wakeup().  page_lock()
\* sleeps on &pg, the address of its own parameter on the stack of the
\* sleeping task; page_unlock() wakes up pg, the address of the page.
NoChan == <<"none", 0>>
GetFreePageChan == <<"get_free_page", 0>>
StackChan(t) == <<"&pg", t>>
PageChan(pg) == <<"pg", pg>>

\* A task between two calls: refs counts the references it took with
\* get_free_page() or search_page_hash() and did not release yet, lock is
\* the page it locked with page_lock().
IdlePageProc ==
    [pc |-> "idle", sleep |-> NoChan, inode |-> 0, offset |-> 0,
     count |-> 0, total |-> 0, pg |-> NULL, idx |-> 0, buf |-> <<>>,
     refs |-> [pg \in Pages |-> 0], lock |-> NULL]

\* What a stretch of kernel code leaves behind: page data, files, the task,
\* the channels woken up and, when the call returns, its value (ret) and the
\* bytes it copied out (out).
PRes(m, f, p, wake) == [m |-> m, f |-> f, p |-> p, wake |-> wake]

PSleep(m, f, p, pc, chan, wake) ==
    PRes(m, f, [p EXCEPT !.pc = pc, !.sleep = chan], wake)

PReturn(m, f, p, wake, ret, out) ==
    [m |-> m, f |-> f,
     p |-> [IdlePageProc EXCEPT !.refs = p.refs, !.lock = p.lock],
     wake |-> wake, ret |-> ret, out |-> out]

Min(a, b) == IF a < b THEN a ELSE b

\* offset & PAGE_MASK
PageAlign(offset) == offset - (offset % PAGE_SIZE)

\* bmap(): the block that backs the byte at offset of the file.
bmap(inode, offset) ==
    (inode - 1) * NFILEPAGES * BlocksPerPage + (offset \div BLKSIZE) + 1

\* memcpy_b(dst + at, src, n) on a sequence of bytes.
memcpy_b(dst, at, src, n) ==
    [i \in DOMAIN dst |-> IF i > at /\ i <= at + n THEN src[i - at]
                          ELSE dst[i]]

ENOMEM == 12
EIO == 5

RECURSIVE FileReadLoop(_, _, _, _, _, _)

\* file_read(), lines 374-382: pg is bound and holds the data.
FileReadCopy(t, m, f, p, wake, fuel) ==
    LET pg == p.pg
    IN  IF m.tab[pg].locked
        THEN PSleep(m, f, p, "fr_lock", StackChan(t), wake)
        ELSE LET poffset == p.offset % PAGE_SIZE
                 bytes == Min(PAGE_SIZE - poffset, p.count)
                 out == p.buf \o [i \in 1..bytes |->
                                    m.tab[pg].data[poffset + i]]
                 rel == release_page(PSet(m, pg, "locked", TRUE), pg)
                 m2 == PSet(rel.m, pg, "locked", FALSE)
                 w == wake \cup {PageChan(pg)}
                           \cup (IF rel.wake THEN {GetFreePageChan} ELSE {})
                 p2 == [p EXCEPT !.buf = out, !.total = @ + bytes,
                                 !.count = @ - bytes, !.offset = @ + bytes,
                                 !.pg = NULL]
             IN  FileReadLoop(t, m2, f, p2, w, fuel - 1)

\* file_read(), lines 358-363: kmalloc() takes a page with get_free_page();
\* woken tells that the task comes back from the sleep of line 165.
FileReadKmalloc(t, m, f, p, wake, woken) ==
    IF m.kstat.free_pages = 0
    THEN IF woken
         THEN PReturn(m, [f EXCEPT !.ilock[p.inode] = FALSE], p, wake,
                      -ENOMEM, <<>>)
         ELSE PSleep(m, f, p, "fr_kmalloc", GetFreePageChan, wake)
    ELSE LET tk == page_take_head(m)
         IN  PRes(tk.m, f, [p EXCEPT !.pc = "fr_bread", !.pg = tk.pg,
                                     !.idx = 0], wake)

\* file_read(), the for(;;) of lines 350-383 up to the next suspension.
FileReadLoop(t, m, f, p, wake, fuel) ==
    LET size == f.i_size[p.inode]
        cnt == IF p.offset + p.count > size THEN size - p.offset
               ELSE p.count
        sr == search_page_hash(m, p.inode, PageAlign(p.offset),
                               InodeDev(p.inode))
    IN  IF cnt = 0 \/ fuel = 0
        THEN PReturn(m, [f EXCEPT !.ilock[p.inode] = FALSE], p, wake,
                     p.total, p.buf)
        ELSE IF sr.pg # NULL
             THEN FileReadCopy(t, sr.m, f,
                               [p EXCEPT !.count = cnt, !.pg = sr.pg],
                               wake, fuel)
             ELSE FileReadKmalloc(t, m, f, [p EXCEPT !.count = cnt], wake,
                                  FALSE)

ReadFuel == NFILEPAGES + 1

\* bread_page(), lines 308-333, when bmap() and bread() of block idx have
\* returned (ok) or one of them failed.
FileReadBlock(t, m, f, p, ok) ==
    LET pg == p.pg
        at == PageAlign(p.offset)
        block == bmap(p.inode, at + p.idx * BLKSIZE)
        m1 == PSet(m, pg, "data",
                   memcpy_b(m.tab[pg].data, p.idx * BLKSIZE, f.blk[block],
                            BLKSIZE))
        m2 == page_insert_to_hash(
                  [m1 EXCEPT !.tab[pg].inode = p.inode,
                             !.tab[pg].offset = at,
                             !.tab[pg].dev = InodeDev(p.inode)], pg)
        rel == release_page(m, pg)
    IN  IF ~ok
        THEN PReturn(rel.m, [f EXCEPT !.ilock[p.inode] = FALSE], p,
                     IF rel.wake THEN {GetFreePageChan} ELSE {}, -EIO, <<>>)
        ELSE IF p.idx + 1 < BlocksPerPage
             THEN PRes(m1, f, [p EXCEPT !.idx = @ + 1], {})
             ELSE FileReadCopy(t, m2, f, p, {}, ReadFuel)

\* update_page_cache(), lines 263-275: found tells whether the page was in
\* the cache, asleep whether page_lock() found it LOCKED.
\* update_page_cache() that forgets the offset inside the page (poffset).
update_page_cache_aligned(m, inode, offset, buf, count) ==
    LET poffset == offset % PAGE_SIZE
        bytes == Min(PAGE_SIZE - poffset, count)
        sr == search_page_hash(m, inode, PageAlign(offset), InodeDev(inode))
        pg == sr.pg
        m1 == PSet(sr.m, pg, "data", memcpy_b(sr.m.tab[pg].data, 0, buf, bytes))
        rel == release_page(m1, pg)
    IN  IF count = 0 \/ pg = NULL
        THEN [m |-> m, wake |-> {}, found |-> FALSE, asleep |-> FALSE,
              pg |-> NULL]
        ELSE [m |-> rel.m, wake |-> {PageChan(pg)}, found |-> TRUE,
              asleep |-> FALSE, pg |-> pg]

update_page_cache(m, inode, offset, buf, count) ==
    LET poffset == offset % PAGE_SIZE
        bytes == Min(PAGE_SIZE - poffset, count)
        sr == search_page_hash(m, inode, PageAlign(offset), InodeDev(inode))
        pg == sr.pg
        m1 == PSet(sr.m, pg, "data",
                   memcpy_b(sr.m.tab[pg].data, poffset, buf, bytes))
        rel == release_page(m1, pg)
    IN  IF count = 0 \/ pg = NULL
        THEN [m |-> m, wake |-> {}, found |-> FALSE, asleep |-> FALSE,
              pg |-> NULL]
        ELSE IF sr.m.tab[pg].locked
             THEN [m |-> sr.m, wake |-> {}, found |-> TRUE, asleep |-> TRUE,
                   pg |-> pg]
             ELSE [m |-> rel.m,
                   wake |-> {PageChan(pg)} \cup (IF rel.wake
                                                 THEN {GetFreePageChan}
                                                 ELSE {}),
                   found |-> TRUE, asleep |-> FALSE, pg |-> pg]

\* minix_file_write(), lines 117-125.
FileWriteEnd(m, f, p, wake) ==
    PReturn(m, [f EXCEPT !.ilock[p.inode] = FALSE,
                         !.i_size[p.inode] = IF p.offset > @ THEN p.offset
                                             ELSE @],
            p, wake, p.total, <<>>)

\* minix_file_write(), lines 104-115, when bmap() and bread() have returned
\* (ok) or one of them failed; p.buf is what is left to write.
FileWriteBlock(t, m, f, p, ok) ==
    LET boffset == p.offset % BLKSIZE
        block == bmap(p.inode, p.offset)
        bytes == Min(BLKSIZE - boffset, p.count - p.total)
        f1 == [f EXCEPT !.blk[block] = memcpy_b(@, boffset, p.buf, bytes)]
        u == update_page_cache(m, p.inode, p.offset, p.buf, bytes)
        p1 == [p EXCEPT !.total = @ + bytes, !.offset = @ + bytes,
                        !.buf = SubSeq(@, bytes + 1, Len(@))]
    IN  IF ~ok
        THEN PReturn(m, [f EXCEPT !.ilock[p.inode] = FALSE], p, {}, -EIO,
                     <<>>)
        ELSE IF u.asleep
             THEN PSleep(u.m, f1, [p EXCEPT !.pg = u.pg], "fw_lock",
                         StackChan(t), u.wake)
             ELSE IF p1.total < p1.count
                  THEN PRes(u.m, f1, p1, u.wake)
                  ELSE FileWriteEnd(u.m, f1, p1, u.wake)

RECURSIVE PageInitFrom(_, _)
PageInitFrom(m, n) ==
    IF n > NR_PAGES THEN m
    ELSE IF n \in ReservedPages
         THEN PageInitFrom(PSet(m, n, "reserved", TRUE), n + 1)
         ELSE PageInitFrom(page_insert_on_free_list(m, n), n + 1)

page_init ==
    PageInitFrom([tab |-> [pg \in Pages |-> EmptyPage], head |-> NULL,
                  hash |-> [i \in 0..(NR_PAGE_HASH - 1) |-> NULL],
                  kstat |-> [free_pages |-> 0, cached |-> 0]], 1)

(* ------------------------------ buffer_init ---------------------------- *)
RECURSIVE InitFrom(_, _)
InitFrom(k, n) ==
    IF n > NR_BUFFERS THEN k ELSE InitFrom(insert_on_free_list(k, n), n + 1)

buffer_init ==
    InitFrom([tab |-> [b \in Buffers |-> EmptyBuffer], head |-> NULL,
              dhead |-> NULL, hash |-> [i \in 0..(NR_BUF_HASH - 1) |-> NULL],
              kstat |-> [dirty |-> 0, buffers |-> 0], sres |-> FALSE], 1)

Keys == Devs \X Blocks \X BlockSizes

\* The observer's record.  The program never reads it.
\*   need_read: keys of a device invalidated since their last read_block
\*   after_inv: tasks whose running bread() started on such a key
\*   stale_hit: such a bread() returned an entry without any read_block
\*   prev_sync: the sync_buffers call that has just returned, if no other
\*              call was made since: its dev, whether all its write_block
\*              calls succeeded, how many it made (writes) and how many
\*              DIRTY entries of dev there were when it started (expect)
\*   cur_sync:  the running sync_buffers call: its dev, whether it follows at
\*              once a call for the same dev whose writes all succeeded,
\*              and whether all its own writes succeeded so far
\*   second_wrote: such a following call has called write_block
\*   reclaim:   per task, its running or just returned reclaim_buffers call:
\*              the clean unlocked entries with a data frame that were on
\*              the free list when it started (cands), the entries whose
\*              frame it has freed (freed), those among the entries it freed
\*              or unhashed that another task had LOCKED (stolen), the value
\*              it returned (ret, -1 while it runs) and whether it woke up
\*              the sleepers on &get_free_page (woke)
\*   gfp_inuse: get_free_page() has handed out a page whose count was not 0
\*   image:     the bytes of the file as the completed writes left them
\*   wr:        the last minix_file_write: where it wrote (off, len), done
\*              once it has returned, cached if every update_page_cache()
\*              it made found the page in the page cache
\*   rd:        the file_read that has just returned, if it followed the
\*              write `wr` with no other call in between: its offset, the
\*              bytes it copied out, the value it returned, and hit if it
\*              found every page in the cache (no kmalloc, no bread)
\*   cold:      the first call made on the caches as the initialisation left
\*              them, when it is a bread(): how far it got (stage: fresh
\*              before any call, bread while it runs, held once it has
\*              returned an entry, released once brelse() has returned, off
\*              after anything else), the entry (buf) and the number of
\*              read_block calls it issued (reads)
NoWrite == [off |-> 0, len |-> 0, done |-> FALSE, cached |-> TRUE]
NoCold == [stage |-> "fresh", buf |-> NULL, reads |-> 0]
ColdOff == [stage |-> "off", buf |-> NULL, reads |-> 0]
NoRead == [off |-> 0, out |-> <<>>, ret |-> -1, hit |-> TRUE,
           follows |-> FALSE]
NoReclaim ==
    [cands |-> {}, freed |-> {}, stolen |-> {}, ret |-> -1, woke |-> FALSE]
NoSync == [dev |-> -1, ok |-> TRUE, writes |-> 0, expect |-> 0]
NoCurSync == [dev |-> -1, ok |-> TRUE, follows |-> FALSE, writes |-> 0,
              expect |-> 0]
NoObs ==
    [need_read |-> {}, after_inv |-> {}, stale_hit |-> FALSE,
     prev_sync |-> NoSync, cur_sync |-> NoCurSync, second_wrote |-> FALSE,
     reclaim |-> [t \in Tasks |-> NoReclaim],
     gfp_inuse |-> FALSE, image |-> [i \in 1..MaxFileSize |-> 0],
     wr |-> NoWrite, rd |-> NoRead, cold |-> NoCold]

\* page_init() has run, every file is size bytes long and all its blocks
\* hold zeros.
InitPages(size) ==
    /\ page_table = page_init.tab
    /\ page_head = page_init.head
    /\ page_hash_table = page_init.hash
    /\ page_kstat = page_init.kstat
    /\ files = [i_size |-> [i \in Inodes |-> size],
                ilock |-> [i \in Inodes |-> FALSE],
                blk |-> [b \in FileBlocks |-> [n \in 1..BLKSIZE |-> 0]]]
    /\ page_proc = [t \in Tasks |-> IdlePageProc]

\* buffer_init() has run and every task is in user mode; the run may make n
\* calls.
InitBuffers(n) ==
    /\ buffer_table = buffer_init.tab
    /\ buffer_head = buffer_init.head
    /\ buffer_dirty_head = buffer_init.dhead
    /\ buffer_hash_table = buffer_init.hash
    /\ kstat = buffer_init.kstat
    /\ sync_resource = buffer_init.sres
    /\ proc = [t \in Tasks |-> IdleProc]
    /\ budget = n
    /\ obs = NoObs

InitWith(n) == InitBuffers(n) /\ InitPages(MaxFileSize)

Init == InitWith(MaxCalls)


(* ------------------------------- steps ---------------------------------- *)
\* A task that loops without suspending, or that faulted in kernel mode,
\* stops the whole (non-preemptive) kernel.
Halted == \E t \in Tasks : proc[t].pc \in {"spin", "fault"}

At(t, pc) == proc[t].pc = pc /\ proc[t].sleep = "none" /\ ~Halted

\* A task enters the kernel with a new call, while the run has calls left.
Call(t) == At(t, "idle") /\ budget > 0 /\ budget' = budget - 1

\* A task resumes inside the call it is suspended in.
Resume(t, pc) == At(t, pc) /\ UNCHANGED budget

\* A task resumes when its device or allocator request has returned: a
\* request that failed is counted like a call.
Done(t, pc, ok) ==
    /\ At(t, pc)
    /\ ok \/ budget > 0
    /\ budget' = IF ok THEN budget ELSE budget - 1

\* wakeup(channel): every task asleep on it becomes runnable.
Apply(t, r) ==
    /\ Commit(r.k)
    /\ proc' = [u \in Tasks |->
                  IF u = t THEN r.p
                  ELSE IF proc[u].sleep \in r.wake
                       THEN [proc[u] EXCEPT !.sleep = "none"]
                       ELSE proc[u]]

\* bread(dev, block, size), up to the first suspension.
Bread(t, dev, block, size) ==
    /\ Call(t) /\ proc[t].held = NULL
    /\ Apply(t, getblk(K, [proc[t] EXCEPT !.dev = dev, !.block = block,
                                          !.size = size]))

\* getblk() woken from sleep(&buffer_wait) or sleep(&get_free_buffer):
\* `continue`.
GetblkRetry(t) ==
    /\ Resume(t, "getblk")
    /\ Apply(t, getblk(K, proc[t]))

\* getblk() in get_free_buffer(), woken from sleep(&buffer_wait): line 190
\* again.
GetFreeBufferRetry(t) ==
    /\ buffer_head # NULL
    /\ Resume(t, "gfb_getblk")
    /\ LET g == get_free_buffer(K, [proc[t] EXCEPT !.pc = "getblk"],
                                "gfb_getblk", {})
       IN  Apply(t, IF g.got THEN GetblkGot(g.res.k, g.res.p, {}) ELSE g.res)

\* The same for reclaim_buffers().
ReclaimGetFreeBufferRes(t) ==
    LET g == get_free_buffer(K, [proc[t] EXCEPT !.pc = "reclaim"],
                             "gfb_reclaim", {})
    IN  IF g.got THEN ReclaimGot(g.res.k, g.res.p, {}, ReclaimFuel)
        ELSE g.res

ReclaimGetFreeBufferRetry(t) ==
    /\ buffer_head # NULL
    /\ Resume(t, "gfb_reclaim")
    /\ Apply(t, ReclaimGetFreeBufferRes(t))

\* The same with buffer_head null: line 192 reads the flags of a null
\* pointer.  The kernel faults, or it reads some word at address 0: with the
\* LOCKED bit set it sleeps again; with it clear remove_from_free_list()
\* returns at once and get_free_buffer() returns NULL to its caller (pc),
\* which sleeps on &get_free_buffer.
GetFreeBufferNull(t, pc, outcome) ==
    /\ buffer_head = NULL
    /\ Resume(t, pc)
    /\ Apply(t,
         CASE outcome = "fault" ->
                Res(K, [proc[t] EXCEPT !.pc = "fault"], {})
           [] outcome = "locked" ->
                Sleep(K, proc[t], pc, "buffer_wait", {})
           [] OTHER ->
                Sleep(K, proc[t],
                      IF pc = "gfb_getblk" THEN "getblk" ELSE "reclaim",
                      "get_free_buffer", {}))

NullReads == {"fault", "locked", "unlocked"}

\* getblk(): write_block() of the dirty entry has returned (line 277).
GetblkWriteDone(t, ok) ==
    /\ Done(t, "getblk_write", ok)
    /\ Apply(t, GetblkBind(sync_one_buffer(K, proc[t].buf, ok),
                           [proc[t] EXCEPT !.pc = "getblk"], {}))

\* getblk(): kmalloc() has returned (lines 280-286).
GetblkKmallocDone(t, ok) ==
    /\ Done(t, "getblk_kmalloc", ok)
    /\ LET b == proc[t].buf
       IN  IF ok
           THEN Apply(t, GetblkBind(
                    [Set(K, b, "data", TRUE)
                        EXCEPT !.kstat.buffers = @ + KIB_PER_PAGE],
                    [proc[t] EXCEPT !.pc = "getblk"], {}))
           ELSE Apply(t, Return(brelse(K, b), proc[t], NULL, BrelseWakes))

\* bread(): read_block() has returned (lines 314-322).
BreadReadDone(t, ok) ==
    /\ Done(t, "bread_read", ok)
    /\ LET b == proc[t].buf
       IN  IF ok
           THEN Apply(t, Return(Set(K, b, "valid", TRUE), proc[t], b, {}))
           ELSE Apply(t, Return(brelse(K, b), proc[t], NULL, BrelseWakes))

\* brelse(buf) by the task bread() gave buf to.
Brelse(t) ==
    /\ Call(t) /\ proc[t].held # NULL
    /\ Apply(t, Return(brelse(K, proc[t].held), proc[t], NULL, BrelseWakes))

\* bwrite(buf) by the task bread() gave buf to.
Bwrite(t) ==
    /\ Call(t) /\ proc[t].held # NULL
    /\ LET b == proc[t].held
           k1 == Set(Set(K, b, "dirty", TRUE), b, "valid", TRUE)
       IN  Apply(t, Return(brelse(k1, b), proc[t], NULL, BrelseWakes))

\* sync_buffers(dev), dev = 0 for every device.
SyncBuffers(t, dev) ==
    /\ Call(t) /\ proc[t].held = NULL
    /\ Apply(t, SyncLock(K, [proc[t] EXCEPT !.dev = dev,
                                           !.buf = buffer_dirty_head]))

\* lock_resource() woken from its sleep.
SyncLockRetry(t) ==
    /\ Resume(t, "sync_lock")
    /\ Apply(t, SyncLock(K, proc[t]))

\* buffer_wait() woken from its sleep.
SyncWaitRetry(t) ==
    /\ Resume(t, "sync_wait")
    /\ Apply(t, SyncWait(K, proc[t], {}))

\* sync_buffers(): write_block() has returned; lines 365-371.
SyncWriteDone(t, ok) ==
    /\ Done(t, "sync_write", ok)
    /\ LET b == proc[t].buf
           k1 == Set(sync_one_buffer(K, b, ok), b, "locked", FALSE)
       IN  Apply(t, SyncLoop(k1, [proc[t] EXCEPT !.buf = proc[t].next],
                             {"buffer_wait"}, NR_BUFFERS))

\* invalidate_buffers(dev): the whole scan runs with interrupts disabled.
InvalidateBuffers(t, dev) ==
    /\ Call(t) /\ proc[t].held = NULL
    /\ Apply(t, Return(invalidate_buffers(K, dev), proc[t], NULL,
                       IF \E b \in Buffers : ~buffer_table[b].locked
                                             /\ buffer_table[b].dev = dev
                       THEN {"buffer_wait"} ELSE {}))

\* reclaim_buffers(), called by kswapd.
ReclaimBuffersRes(t) ==
    ReclaimLoop(K, [proc[t] EXCEPT !.pc = "reclaim"], {}, ReclaimFuel)

ReclaimBuffers(t) ==
    /\ Call(t) /\ proc[t].held = NULL
    /\ Apply(t, ReclaimBuffersRes(t))

\* reclaim_buffers() woken from sleep(&get_free_buffer): `continue`.
ReclaimRetryRes(t) == ReclaimLoop(K, proc[t], {}, ReclaimFuel)

ReclaimRetry(t) ==
    /\ Resume(t, "reclaim")
    /\ Apply(t, ReclaimRetryRes(t))

\* reclaim_buffers(): write_block() has returned (line 417).
ReclaimWriteRes(t, ok) ==
    ReclaimBody(sync_one_buffer(K, proc[t].buf, ok),
                [proc[t] EXCEPT !.pc = "reclaim"], {}, ReclaimFuel)

ReclaimWriteDone(t, ok) ==
    /\ Done(t, "reclaim_write", ok)
    /\ Apply(t, ReclaimWriteRes(t, ok))

Step(t) ==
    \/ /\ \E dev \in Devs, block \in Blocks, size \in BlockSizes :
             Bread(t, dev, block, size)
       /\ UNCHANGED obs
    \/ GetblkRetry(t) /\ UNCHANGED obs
    \/ GetFreeBufferRetry(t) /\ UNCHANGED obs
    \/ /\ \E outcome \in NullReads : GetFreeBufferNull(t, "gfb_getblk", outcome)
       /\ UNCHANGED obs
    \/ (\E ok \in BOOLEAN : GetblkWriteDone(t, ok)) /\ UNCHANGED obs
    \/ (\E ok \in BOOLEAN : GetblkKmallocDone(t, ok)) /\ UNCHANGED obs
    \/ (\E ok \in BOOLEAN : BreadReadDone(t, ok)) /\ UNCHANGED obs
    \/ Brelse(t) /\ UNCHANGED obs
    \/ Bwrite(t) /\ UNCHANGED obs
    \/ (\E dev \in Devs \cup {0} : SyncBuffers(t, dev)) /\ UNCHANGED obs
    \/ SyncLockRetry(t) /\ UNCHANGED obs
    \/ SyncWaitRetry(t) /\ UNCHANGED obs
    \/ (\E ok \in BOOLEAN : SyncWriteDone(t, ok)) /\ UNCHANGED obs
    \/ (\E dev \in Devs : InvalidateBuffers(t, dev)) /\ UNCHANGED obs
    \/ ReclaimBuffers(t) /\ UNCHANGED obs
    \/ ReclaimRetry(t) /\ UNCHANGED obs
    \/ ReclaimGetFreeBufferRetry(t) /\ UNCHANGED obs
    \/ /\ \E outcome \in NullReads : GetFreeBufferNull(t, "gfb_reclaim", outcome)
       /\ UNCHANGED obs
    \/ (\E ok \in BOOLEAN : ReclaimWriteDone(t, ok)) /\ UNCHANGED obs

Next == \E t \in Tasks : Step(t)

\* The buffer cache under every call, by NTASKS tasks.
Spec == Init /\ [][Next]_vars


(* ----------------------- what the lists contain ------------------------ *)
\* The entries met from x along the links f, in at most n hops, stopping at
\* NULL or back at `stop`.
RECURSIVE Walk(_, _, _, _, _)
Walk(x, f, stop, n, acc) ==
    IF x = NULL \/ n = 0 \/ x \in acc \/ (acc # {} /\ x = stop) THEN acc
    ELSE Walk(buffer_table[x][f], f, stop, n - 1, acc \cup {x})

\* Entries reachable from buffer_head by following next_free.
FreeList == Walk(buffer_head, "next_free", buffer_head, NR_BUFFERS, {})

\* Entries reachable from buffer_dirty_head by following next_dirty.
DirtyList == Walk(buffer_dirty_head, "next_dirty", NULL, NR_BUFFERS, {})

\* Entries reachable from a bucket of the hash table by following next_hash.
HashChain(i) == Walk(buffer_hash_table[i], "next_hash", NULL, NR_BUFFERS, {})
Hashed == UNION {HashChain(i) : i \in 0..(NR_BUF_HASH - 1)}

KeyOf(b) == <<buffer_table[b].dev, buffer_table[b].block, buffer_table[b].size>>

\* Task t owns the lock of entry b: bread() returned b to it, or it is inside
\* getblk(), bread(), sync_buffers() or reclaim_buffers() between taking the
\* lock of b and releasing it.
Holds(t, b) ==
    \/ proc[t].held = b
    \/ /\ proc[t].pc \in {"getblk_write", "getblk_kmalloc", "bread_read",
                          "sync_write", "reclaim_write"}
       /\ proc[t].buf = b

Holders(b) == {t \in Tasks : Holds(t, b)}

(* ------------------- the calls seen by an observer ---------------------- *)
\* bread(key) by task t has moved on.  It is "after an invalidate" when it
\* started on a key of an invalidated device that no read_block has fetched
\* since; a step that ends in read_block fetches the key; a step that ends
\* with bread returning an entry without read_block is a stale hit.
ObsBread(t, key, after) ==
    LET returned == proc'[t].pc = "idle"
        reading == proc'[t].pc = "bread_read"
    IN  obs' = [obs EXCEPT
                  !.need_read = IF reading THEN @ \ {key} ELSE @,
                  !.after_inv = IF returned \/ reading THEN @ \ {t}
                                ELSE IF after THEN @ \cup {t} ELSE @,
                  !.stale_hit = @ \/ (after /\ returned
                                      /\ proc'[t].held # NULL
                                      /\ key \in obs.need_read)]

\* invalidate_buffers(dev) has returned.
ObsInvalidate(dev) ==
    obs' = [obs EXCEPT !.need_read = @ \cup {k \in Keys : k[1] = dev}]

\* bread() of task t resumes inside getblk().
ObsGetblk(t) ==
    ObsBread(t, <<proc[t].dev, proc[t].block, proc[t].size>>,
             t \in obs.after_inv)

\* Tasks that call bread, brelse, bwrite and invalidate_buffers only: without
\* sync_buffers no LOCKED entry is on the free list, so get_free_buffer()
\* never sleeps on &buffer_wait.
StepInv(t) ==
    \/ \E dev \in Devs, block \in Blocks, size \in BlockSizes :
          /\ Bread(t, dev, block, size)
          /\ ObsBread(t, <<dev, block, size>>,
                      <<dev, block, size>> \in obs.need_read)
    \/ GetblkRetry(t) /\ ObsGetblk(t)
    \/ (\E ok \in BOOLEAN : GetblkWriteDone(t, ok)) /\ ObsGetblk(t)
    \/ (\E ok \in BOOLEAN : GetblkKmallocDone(t, ok)) /\ ObsGetblk(t)
    \/ (\E ok \in BOOLEAN : BreadReadDone(t, ok)) /\ UNCHANGED obs
    \/ Brelse(t) /\ UNCHANGED obs
    \/ Bwrite(t) /\ UNCHANGED obs
    \/ \E dev \in Devs : InvalidateBuffers(t, dev) /\ ObsInvalidate(dev)

NextInv == \E t \in Tasks : StepInv(t)

\* The buffer cache with the observer of invalidate_buffers and bread.
SpecInv == Init /\ [][NextInv]_vars

\* The DIRTY entries sync_buffers(dev) is asked to write: those of dev, or
\* all of them when dev is 0.
DirtyOf(dev) ==
    {b \in Buffers : buffer_table[b].dirty
                     /\ (dev = 0 \/ buffer_table[b].dev = dev)}

\* sync_buffers(dev) by task t has moved on: ok tells whether the write_block
\* that has just returned, if any, succeeded.
ObsSync(t, cur, ok) ==
    LET wrote == proc'[t].pc = "sync_write"
        returned == proc'[t].pc = "idle"
        c == [cur EXCEPT !.ok = @ /\ ok,
                         !.writes = IF wrote THEN @ + 1 ELSE @]
    IN  obs' = [obs EXCEPT
                  !.second_wrote = @ \/ (wrote /\ c.follows),
                  !.prev_sync = IF returned
                                THEN [dev |-> c.dev, ok |-> c.ok,
                                      writes |-> c.writes,
                                      expect |-> c.expect]
                                ELSE NoSync,
                  !.cur_sync = IF returned THEN NoCurSync ELSE c,
                  !.reclaim = [u \in Tasks |-> NoReclaim],
                  !.cold = ColdOff]

\* reclaim_buffers() of task t has moved on, r being what the stretch of
\* code it ran leaves behind.
ReclaimObserved(t, r) ==
    LET start == proc[t].pc = "idle"
        old == IF start
               THEN [NoReclaim EXCEPT
                       !.cands = {b \in FreeList :
                                     /\ buffer_table[b].data
                                     /\ ~buffer_table[b].dirty
                                     /\ ~buffer_table[b].locked}]
               ELSE obs.reclaim[t]
        freed == {b \in Buffers : buffer_table[b].data /\ ~r.k.tab[b].data}
        unhashed == Hashed \ Hashed'
        returned == "ret" \in DOMAIN r
    IN  [old EXCEPT
           !.freed = @ \cup freed,
           !.stolen = @ \cup {b \in freed \cup unhashed :
                                 buffer_table[b].locked /\ ~Holds(t, b)},
           !.ret = IF returned THEN r.ret ELSE -1,
           !.woke = returned /\ "get_free_page" \in r.wake]

\* Any other call ends the "immediately after sync_buffers" and the "just
\* returned" of reclaim_buffers.
ObsOtherCall ==
    obs' = [obs EXCEPT !.prev_sync = NoSync,
                       !.reclaim = [t \in Tasks |-> NoReclaim],
                       !.cold = ColdOff]

\* The first bread() of task t has moved on: the step ends in read_block, or
\* with bread() returning an entry, or with bread() returning NULL.
ColdStep(t, c) ==
    LET reads == IF proc'[t].pc = "bread_read" THEN c.reads + 1 ELSE c.reads
    IN  IF proc'[t].pc # "idle"
        THEN [stage |-> "bread", buf |-> proc'[t].buf, reads |-> reads]
        ELSE IF proc'[t].held # NULL
             THEN [stage |-> "held", buf |-> proc'[t].held, reads |-> reads]
             ELSE ColdOff

\* Task t calls bread(), or its bread() resumes, or it calls brelse().
Cold(t, call) ==
    CASE call = "bread" /\ obs.cold.stage = "fresh" -> ColdStep(t, obs.cold)
      [] call = "resume" /\ obs.cold.stage = "bread" -> ColdStep(t, obs.cold)
      [] call = "brelse" /\ obs.cold.stage = "held" ->
            [obs.cold EXCEPT !.stage = "released"]
      [] OTHER -> ColdOff

ObsSeqBread(t, call) ==
    obs' = [obs EXCEPT !.prev_sync = IF call = "resume" THEN @ ELSE NoSync,
                       !.reclaim = IF call = "resume" THEN @
                                   ELSE [u \in Tasks |-> NoReclaim],
                       !.cold = Cold(t, call)]

\* The sequential task runs reclaim_buffers().
ObsSeqReclaim(t, r) ==
    obs' = [obs EXCEPT !.prev_sync = NoSync,
                       !.reclaim[t] = ReclaimObserved(t, r),
                       !.cold = ColdOff]

\* One task makes its calls one after the other, nothing else runs: no lock
\* is ever found taken, so nothing sleeps.
StepSeq(t) ==
    \/ \E dev \in Devs \cup {0} :
          /\ SyncBuffers(t, dev)
          /\ ObsSync(t, [dev |-> dev, ok |-> TRUE,
                         follows |-> obs.prev_sync.dev = dev
                                     /\ obs.prev_sync.ok,
                         writes |-> 0,
                         expect |-> Cardinality(DirtyOf(dev))], TRUE)
    \/ \E ok \in BOOLEAN : SyncWriteDone(t, ok) /\ ObsSync(t, obs.cur_sync, ok)
    \/ /\ \E dev \in Devs, block \in Blocks, size \in BlockSizes :
             Bread(t, dev, block, size)
       /\ ObsSeqBread(t, "bread")
    \/ Brelse(t) /\ ObsSeqBread(t, "brelse")
    \/ Bwrite(t) /\ ObsOtherCall
    \/ (\E dev \in Devs : InvalidateBuffers(t, dev)) /\ ObsOtherCall
    \/ ReclaimBuffers(t) /\ ObsSeqReclaim(t, ReclaimBuffersRes(t))
    \/ (\E ok \in BOOLEAN : GetblkWriteDone(t, ok)) /\ ObsSeqBread(t, "resume")
    \/ (\E ok \in BOOLEAN : GetblkKmallocDone(t, ok))
          /\ ObsSeqBread(t, "resume")
    \/ (\E ok \in BOOLEAN : BreadReadDone(t, ok)) /\ ObsSeqBread(t, "resume")
    \/ \E ok \in BOOLEAN :
          ReclaimWriteDone(t, ok) /\ ObsSeqReclaim(t, ReclaimWriteRes(t, ok))

NextSeq == StepSeq(1)

InitSeq == InitWith(MaxSeqCalls)

\* The buffer cache used by a single task, with the observer of sync_buffers
\* and reclaim_buffers.
SpecSeq == InitSeq /\ [][NextSeq]_vars

\* Task t makes a step of a call other than reclaim_buffers(): a new call
\* ends the "just returned" of its last reclaim_buffers().
ObsNoReclaim(t) ==
    obs' = [obs EXCEPT !.reclaim[t] = IF proc[t].pc = "idle" THEN NoReclaim
                                      ELSE @]

ObsReclaim(t, r) == obs' = [obs EXCEPT !.reclaim[t] = ReclaimObserved(t, r)]

\* NTASKS tasks that call bread, brelse, bwrite, sync_buffers and
\* reclaim_buffers, on enough blocks of one device to give every entry a key
\* of its own,
\* with the observer of reclaim_buffers.
StepRec(t) ==
    \/ /\ \E dev \in RecDevs, block \in RecBlocks, size \in BlockSizes :
             Bread(t, dev, block, size)
       /\ ObsNoReclaim(t)
    \/ GetblkRetry(t) /\ ObsNoReclaim(t)
    \/ GetFreeBufferRetry(t) /\ ObsNoReclaim(t)
    \/ /\ \E outcome \in NullReads : GetFreeBufferNull(t, "gfb_getblk", outcome)
       /\ ObsNoReclaim(t)
    \/ (\E ok \in BOOLEAN : GetblkWriteDone(t, ok)) /\ ObsNoReclaim(t)
    \/ (\E ok \in BOOLEAN : GetblkKmallocDone(t, ok)) /\ ObsNoReclaim(t)
    \/ (\E ok \in BOOLEAN : BreadReadDone(t, ok)) /\ ObsNoReclaim(t)
    \/ Brelse(t) /\ ObsNoReclaim(t)
    \/ Bwrite(t) /\ ObsNoReclaim(t)
    \/ (\E dev \in RecDevs : SyncBuffers(t, dev)) /\ ObsNoReclaim(t)
    \/ SyncLockRetry(t) /\ ObsNoReclaim(t)
    \/ SyncWaitRetry(t) /\ ObsNoReclaim(t)
    \/ (\E ok \in BOOLEAN : SyncWriteDone(t, ok)) /\ ObsNoReclaim(t)
    \/ ReclaimBuffers(t) /\ ObsReclaim(t, ReclaimBuffersRes(t))
    \/ ReclaimRetry(t) /\ ObsReclaim(t, ReclaimRetryRes(t))
    \/ ReclaimGetFreeBufferRetry(t) /\ ObsReclaim(t, ReclaimGetFreeBufferRes(t))
    \/ /\ \E outcome \in NullReads : GetFreeBufferNull(t, "gfb_reclaim", outcome)
       /\ UNCHANGED obs
    \/ \E ok \in BOOLEAN :
          ReclaimWriteDone(t, ok) /\ ObsReclaim(t, ReclaimWriteRes(t, ok))

NextRec == \E t \in Tasks : StepRec(t)

SpecRec == Init /\ [][NextRec]_vars

(* ------------------------ steps in the page cache ---------------------- *)
PAt(t, pc) == page_proc[t].pc = pc /\ page_proc[t].sleep = NoChan

PCall(t) == PAt(t, "idle") /\ budget > 0 /\ budget' = budget - 1

PResume(t, pc) == PAt(t, pc) /\ UNCHANGED budget

PDone(t, pc, ok) ==
    /\ PAt(t, pc)
    /\ ok \/ budget > 0
    /\ budget' = IF ok THEN budget ELSE budget - 1

\* wakeup(channel) in the page cache.
PApply(t, r) ==
    /\ PCommit(r.m)
    /\ files' = r.f
    /\ page_proc' = [u \in Tasks |->
                       IF u = t THEN r.p
                       ELSE IF page_proc[u].sleep \in r.wake
                            THEN [page_proc[u] EXCEPT !.sleep = NoChan]
                            ELSE page_proc[u]]
    /\ UNCHANGED bvars

\* get_free_page(); woken tells that the task comes back from the sleep of
\* line 165.
GetFreePageRes(t, woken) ==
    LET p == page_proc[t]
        tk == page_take_head(M)
    IN  IF page_kstat.free_pages = 0
        THEN IF woken THEN PReturn(M, files, p, {}, NULL, <<>>)
             ELSE PSleep(M, files, p, "gfp", GetFreePageChan, {})
        ELSE PReturn(tk.m, files, [p EXCEPT !.refs[tk.pg] = @ + 1], {},
                     tk.pg, <<>>)

GetFreePage(t) == PCall(t) /\ PApply(t, GetFreePageRes(t, FALSE))

GetFreePageWoken(t) == PResume(t, "gfp") /\ PApply(t, GetFreePageRes(t, TRUE))

\* search_page_hash(inode, offset) called for its own sake: the caller keeps
\* the reference until it calls release_page().
SearchPageHash(t, inode, offset) ==
    /\ PCall(t)
    /\ LET sr == search_page_hash(M, inode, offset, InodeDev(inode))
           p == page_proc[t]
       IN  PApply(t, PReturn(sr.m, files,
                             IF sr.pg = NULL THEN p
                             ELSE [p EXCEPT !.refs[sr.pg] = @ + 1],
                             {}, sr.pg, <<>>))

\* release_page(pg) by a task that holds a reference to pg, or on a page
\* nobody holds (the "already freed" warning of line 222).
ReleasePage(t, pg) ==
    /\ PCall(t)
    /\ page_proc[t].refs[pg] > 0 \/ page_table[pg].count = 0
    /\ LET rel == release_page(M, pg)
           p == page_proc[t]
       IN  PApply(t, PReturn(rel.m, files,
                             IF p.refs[pg] > 0
                             THEN [p EXCEPT !.refs[pg] = @ - 1] ELSE p,
                             IF rel.wake THEN {GetFreePageChan} ELSE {},
                             0, <<>>))

\* update_page_cache(i, offset, buf, count) called for its own sake.
UpdatePageCacheRes(t, inode, offset, buf) ==
    LET u == update_page_cache(M, inode, offset, buf, Len(buf))
        p == page_proc[t]
    IN  IF u.asleep
        THEN PSleep(u.m, files, [p EXCEPT !.pg = u.pg], "upc_lock",
                    StackChan(t), u.wake)
        ELSE PReturn(u.m, files, p, u.wake, 0, <<>>)

UpdatePageCache(t, inode, offset, buf) ==
    PCall(t) /\ PApply(t, UpdatePageCacheRes(t, inode, offset, buf))

\* file_read(i, fd_table, buffer, count) with fd_table->offset = offset, up
\* to its first suspension; inode_lock() lets it in once the inode is free.
FileReadRes(t, inode, offset, count) ==
    LET size == files.i_size[inode]
        p == [page_proc[t] EXCEPT !.inode = inode,
                                  !.offset = IF offset > size THEN size
                                             ELSE offset,
                                  !.count = count, !.total = 0,
                                  !.buf = <<>>]
    IN  FileReadLoop(t, M, [files EXCEPT !.ilock[inode] = TRUE], p, {},
                     ReadFuel)

FileRead(t, inode, offset, count) ==
    /\ PCall(t) /\ ~files.ilock[inode]
    /\ PApply(t, FileReadRes(t, inode, offset, count))

\* kmalloc() inside file_read() woken from sleep(&get_free_page).
FileReadKmallocRes(t) ==
    FileReadKmalloc(t, M, files, page_proc[t], {}, TRUE)

FileReadKmallocWoken(t) ==
    PResume(t, "fr_kmalloc") /\ PApply(t, FileReadKmallocRes(t))

\* bread_page() inside file_read(): bmap() and bread() have returned.
FileReadBlockRes(t, ok) == FileReadBlock(t, M, files, page_proc[t], ok)

FileReadBlockDone(t, ok) ==
    PDone(t, "fr_bread", ok) /\ PApply(t, FileReadBlockRes(t, ok))

\* minix_file_write(i, fd_table, buffer, count) with fd_table->offset =
\* offset and buffer holding the bytes of data, up to its first bread().
MinixFileWriteRes(t, inode, offset, data) ==
    LET p == [page_proc[t] EXCEPT !.inode = inode, !.offset = offset,
                                  !.count = Len(data), !.total = 0,
                                  !.buf = data]
        f == [files EXCEPT !.ilock[inode] = TRUE]
    IN  IF Len(data) = 0 THEN FileWriteEnd(M, f, p, {})
        ELSE PRes(M, f, [p EXCEPT !.pc = "fw_bread"], {})

MinixFileWrite(t, inode, offset, data) ==
    /\ PCall(t) /\ ~files.ilock[inode]
    /\ PApply(t, MinixFileWriteRes(t, inode, offset, data))

FileWriteBlockRes(t, ok) == FileWriteBlock(t, M, files, page_proc[t], ok)

FileWriteBlockDone(t, ok) ==
    PDone(t, "fw_bread", ok) /\ PApply(t, FileWriteBlockRes(t, ok))

\* page_lock(pg) called for its own sake by a task that holds no page lock.
PageLock(t, pg) ==
    /\ PCall(t) /\ page_proc[t].lock = NULL
    /\ LET p == page_proc[t]
       IN  PApply(t, IF page_table[pg].locked
                     THEN PSleep(M, files, [p EXCEPT !.pg = pg], "pl_lock",
                                 StackChan(t), {})
                     ELSE PReturn(PSet(M, pg, "locked", TRUE), files,
                                  [p EXCEPT !.lock = pg], {}, 0, <<>>))

\* page_unlock(pg) by the task that locked pg.
PageUnlock(t) ==
    /\ PCall(t) /\ page_proc[t].lock # NULL
    /\ LET p == page_proc[t]
       IN  PApply(t, PReturn(PSet(M, p.lock, "locked", FALSE), files,
                             [p EXCEPT !.lock = NULL], {PageChan(p.lock)},
                             0, <<>>))

\* kswapd has run reclaim_buffers(), which ends with wakeup(&get_free_page):
\* task t, asleep in get_free_page(), becomes runnable with all the others.
ReclaimWakeup(t) ==
    /\ page_proc[t].sleep = GetFreePageChan
    /\ page_proc' = [u \in Tasks |->
                       IF page_proc[u].sleep = GetFreePageChan
                       THEN [page_proc[u] EXCEPT !.sleep = NoChan]
                       ELSE page_proc[u]]
    /\ UNCHANGED <<page_table, page_head, page_hash_table, page_kstat, files,
                   budget>>
    /\ UNCHANGED bvars

\* What a task may ask for: (offset, count) of a read, and the bytes of a
\* write of a given length.
ReadRanges == {<<0, PAGE_SIZE>>, <<PAGE_SIZE, 1>>, <<1, PAGE_SIZE>>}
PageOffsets == {n * PAGE_SIZE : n \in 0..(NFILEPAGES - 1)}
OneByte == {<<1>>}

\* get_free_page() has returned pg to a task: was pg in use?
ObsGetFreePage(r) ==
    obs' = [obs EXCEPT !.gfp_inuse =
              @ \/ ("ret" \in DOMAIN r /\ r.ret # NULL
                    /\ page_table[r.ret].count > 0)]

\* NTASKS tasks in the page cache.  No task ever comes back from the sleep of
\* page_lock(): nothing calls wakeup() on the address of its parameter.
StepPage(t) ==
    \/ GetFreePage(t) /\ ObsGetFreePage(GetFreePageRes(t, FALSE))
    \/ GetFreePageWoken(t) /\ ObsGetFreePage(GetFreePageRes(t, TRUE))
    \/ /\ \E inode \in Inodes, offset \in PageOffsets :
             SearchPageHash(t, inode, offset)
       /\ UNCHANGED obs
    \/ (\E pg \in Pages : ReleasePage(t, pg)) /\ UNCHANGED obs
    \/ /\ \E inode \in Inodes, offset \in PageOffsets, buf \in OneByte :
             UpdatePageCache(t, inode, offset, buf)
       /\ UNCHANGED obs
    \/ /\ \E inode \in Inodes, rg \in ReadRanges :
             FileRead(t, inode, rg[1], rg[2])
       /\ UNCHANGED obs
    \/ FileReadKmallocWoken(t) /\ UNCHANGED obs
    \/ (\E ok \in BOOLEAN : FileReadBlockDone(t, ok)) /\ UNCHANGED obs
    \/ (\E pg \in Pages \ ReservedPages : PageLock(t, pg)) /\ UNCHANGED obs
    \/ PageUnlock(t) /\ UNCHANGED obs
    \/ ReclaimWakeup(t) /\ UNCHANGED obs

NextPage == \E t \in Tasks : StepPage(t)

InitPage == InitWith(MaxPageCalls)

SpecPage == InitPage /\ [][NextPage]_vars

\* Pages reachable from page_head by following next_free.
RECURSIVE PageWalk(_, _, _)
PageWalk(x, n, acc) ==
    IF x = NULL \/ n = 0 \/ x \in acc THEN acc
    ELSE PageWalk(page_table[x].next_free, n - 1, acc \cup {x})

PageFreeList == PageWalk(page_head, NR_PAGES, {})

(* --------------------- one task reads and writes a file ----------------- *)
\* minix_file_write() has been called.
ObsWriteCall(offset, data) ==
    obs' = [obs EXCEPT !.wr = [off |-> offset, len |-> Len(data),
                               done |-> FALSE, cached |-> TRUE],
                       !.rd = NoRead]

\* minix_file_write() of task t has come back from bread(): the bytes it
\* copies to the block become the bytes of the file.
ObsWriteBlock(t, ok, r) ==
    LET p == page_proc[t]
        bytes == Min(BLKSIZE - (p.offset % BLKSIZE), p.count - p.total)
        found == update_page_cache(M, p.inode, p.offset, p.buf, bytes).found
    IN  obs' = [obs EXCEPT
                  !.image = IF ok THEN memcpy_b(@, p.offset, p.buf, bytes)
                            ELSE @,
                  !.wr = IF ~ok THEN NoWrite
                         ELSE [@ EXCEPT !.cached = @ /\ found,
                                        !.done = "ret" \in DOMAIN r]]

\* file_read() of task t has moved on; rd is its record so far.
ObsRead(rd, r) ==
    obs' = [obs EXCEPT
              !.wr = IF "ret" \in DOMAIN r THEN NoWrite ELSE @,
              !.rd = IF "ret" \in DOMAIN r
                     THEN [rd EXCEPT !.out = r.out, !.ret = r.ret]
                     ELSE [rd EXCEPT !.hit = FALSE]]

FileOffsets == 0..(MaxFileSize - 1)
\* The bytes a write brings: none is 0, the byte every block starts with, and
\* neighbours differ.
WriteData == {[i \in 1..n |-> 1 + (i % MaxByte)] : n \in 1..PAGE_SIZE}

\* One task reads the file, with any offset and length, and writes it, with
\* any offset and length that stay inside a page.
StepFile(t) ==
    \/ \E inode \in Inodes, offset \in FileOffsets, count \in 1..PAGE_SIZE :
          /\ FileRead(t, inode, offset, count)
          /\ ObsRead([NoRead EXCEPT !.off = Min(offset, files.i_size[inode]),
                                    !.follows = obs.wr.done],
                     FileReadRes(t, inode, offset, count))
    \/ \E ok \in BOOLEAN :
          FileReadBlockDone(t, ok) /\ ObsRead(obs.rd, FileReadBlockRes(t, ok))
    \/ \E inode \in Inodes, offset \in FileOffsets, data \in WriteData :
          /\ (offset % PAGE_SIZE) + Len(data) <= PAGE_SIZE
          /\ MinixFileWrite(t, inode, offset, data)
          /\ ObsWriteCall(offset, data)
    \/ \E ok \in BOOLEAN :
          /\ FileWriteBlockDone(t, ok)
          /\ ObsWriteBlock(t, ok, FileWriteBlockRes(t, ok))

NextFile == StepFile(1)

\* The file ends inside its last page or fills it when the run starts.
FileSizes == {MaxFileSize - PAGE_SIZE + 1, MaxFileSize}

InitFile ==
    /\ InitBuffers(MaxFileCalls)
    /\ \E size \in FileSizes : InitPages(size)

SpecFile == InitFile /\ [][NextFile]_vars

(* ------------------------------- claims -------------------------------- *)

\* C1: the hash table never holds two entries bound to the same
\* (dev, block, size), also when several tasks run bread for one key and
\* suspend inside getblk.
C1_OneEntryPerKey ==
    \A b1, b2 \in Hashed : b1 # b2 => KeyOf(b1) # KeyOf(b2)

\* C2: an entry is LOCKED exactly while one task owns it: no entry has two
\* owners, a LOCKED entry has one, an unlocked entry has none.
C2_MutualExclusion ==
    \A b \in Buffers :
        IF buffer_table[b].locked
        THEN Cardinality(Holders(b)) = 1
        ELSE Holders(b) = {}

\* C2 witness: one task owns a LOCKED entry while another sleeps in getblk
\* waiting for that very entry.
C2_Witness ==
    \E t, u \in Tasks, b \in Buffers :
        /\ t # u
        /\ proc[t].held = b /\ buffer_table[b].locked
        /\ proc[u].pc = "getblk" /\ proc[u].sleep = "buffer_wait"
        /\ <<proc[u].dev, proc[u].block, proc[u].size>> = KeyOf(b)
        /\ b \in Hashed

\* C3: every entry that is not LOCKED is on the free list.
C3_UnlockedOnFreeList ==
    \A b \in Buffers : ~buffer_table[b].locked => b \in FreeList

C5_DirtyIffOnDirtyList ==
    \A b \in Buffers :
        ~buffer_table[b].locked =>
            (buffer_table[b].dirty <=> b \in DirtyList)

\* C6: kstat.dirty is PAGE_SIZE / 1024 times the number of entries on the
\* dirty list.
C6_DirtyCounter ==
    kstat.dirty = KIB_PER_PAGE * Cardinality(DirtyList)

\* C7: every entry on the dirty list is VALID.
C7_DirtyIsValid ==
    \A b \in DirtyList : buffer_table[b].valid

\* C8: every VALID entry has a data frame.
C8_ValidHasData ==
    \A b \in Buffers : buffer_table[b].valid => buffer_table[b].data


\* C9: a bread(d, b, s) that starts after invalidate_buffers(d) has returned,
\* with no read_block of that key since, never returns an entry without
\* calling read_block: also when the entry was LOCKED during the scan.
C9_InvalidateThenRead == ~obs.stale_hit

\* C10: a sync_buffers(d) that follows at once a sync_buffers(d) whose
\* write_block calls all succeeded (a failed write leaves the entry dirty, to
\* be written again) never calls write_block.
C10_SecondSyncWritesNothing == ~obs.second_wrote

\* C11: when sync_buffers(d) has returned and all its write_block calls
\* succeeded, it made exactly one call per entry of d that was DIRTY (however
\* many times bwrite marked it), no entry of d is DIRTY or on the dirty list,
\* and kstat.dirty is 0 if no entry at all is left dirty.
C11_SyncWritesEachDirtyOnce ==
    LET d == obs.prev_sync.dev
        mine == {b \in Buffers : d = 0 \/ buffer_table[b].dev = d}
    IN  (d # -1 /\ obs.prev_sync.ok) =>
            /\ obs.prev_sync.writes = obs.prev_sync.expect
            /\ \A b \in mine : ~buffer_table[b].dirty /\ b \notin DirtyList
            /\ (DirtyOf(0) = {} /\ DirtyList = {}) => kstat.dirty = 0

\* write_block() has just returned an error to task t inside
\* sync_one_buffer(), called by sync_buffers(), getblk() or reclaim_buffers().
WriteFailed(t) ==
    \/ SyncWriteDone(t, FALSE)
    \/ GetblkWriteDone(t, FALSE)
    \/ ReclaimWriteDone(t, FALSE)

\* C12: when write_block fails for an entry that is DIRTY and on the dirty
\* list, the caller of sync_one_buffer leaves it DIRTY and on the dirty list,
\* with its data frame and its (dev, block) unchanged.
C12_FailedWriteKeepsEntry ==
    [][\A t \in Tasks :
          LET b == proc[t].buf
          IN  (WriteFailed(t) /\ buffer_table[b].dirty /\ b \in DirtyList) =>
                  /\ buffer_table'[b].dirty
                  /\ b \in DirtyList'
                  /\ buffer_table'[b].data = buffer_table[b].data
                  /\ buffer_table'[b].dev = buffer_table[b].dev
                  /\ buffer_table'[b].block = buffer_table[b].block]_vars

\* C13: a call of reclaim_buffers frees at most NR_BUF_RECLAIM frames, and it
\* neither frees the frame nor removes from the hash table an entry that
\* another task has LOCKED.
C13_ReclaimBounded ==
    \A t \in Tasks :
       /\ Cardinality(obs.reclaim[t].freed) <= NR_BUF_RECLAIM
       /\ obs.reclaim[t].stolen = {}

\* A call freed NR_BUF_RECLAIM frames and returned while another task held a
\* LOCKED entry whose frame and hash binding are intact.
C13_Witness ==
    \E t, u \in Tasks : \E b \in Buffers :
       /\ t # u
       /\ obs.reclaim[t].ret = NR_BUF_RECLAIM
       /\ Cardinality(obs.reclaim[t].freed) = NR_BUF_RECLAIM
       /\ Holds(u, b) /\ buffer_table[b].locked
       /\ buffer_table[b].data /\ b \in Hashed

C16_FreeIffCountZero ==
    /\ \A pg \in Pages \ ReservedPages :
          pg \in PageFreeList <=> page_table[pg].count = 0
    /\ ~obs.gfp_inuse

\* A cached page with no user is on the free list while a task holds a
\* reference to another page, which is off the list.
C16_Witness ==
    \E pg, qg \in Pages \ ReservedPages : \E t \in Tasks :
       /\ page_table[pg].inode # 0 /\ page_table[pg].count = 0
       /\ pg \in PageFreeList
       /\ page_proc[t].refs[qg] > 0 /\ page_table[qg].count > 0
       /\ qg \notin PageFreeList

\* Task u sleeps inside page_lock(pg), called by itself, by file_read, by
\* update_page_cache or by minix_file_write.
AsleepInPageLock(u, pg) ==
    /\ page_proc[u].pc \in {"pl_lock", "fr_lock", "upc_lock", "fw_lock"}
    /\ page_proc[u].sleep # NoChan
    /\ page_proc[u].pg = pg

\* C17: a task that found pg LOCKED in page_lock(pg) and went to sleep is
\* woken up by the page_unlock(pg) of the holder: no task is still asleep in
\* page_lock(pg) once pg is unlocked.
C17_UnlockWakesSleeper ==
    \A u \in Tasks : \A pg \in Pages :
       AsleepInPageLock(u, pg) => page_table[pg].locked

\* C15: when minix_file_write has written into a region whose page is in the
\* page cache, the file_read that follows, with no other call in between and
\* without reading any block, returns the bytes of the file as the write
\* left them, whatever the offsets and the lengths.
C15_ReadSeesWrite ==
    (obs.rd.ret >= 0 /\ obs.rd.follows /\ obs.rd.hit /\ obs.wr.cached) =>
        obs.rd.out = SubSeq(obs.image, obs.rd.off + 1,
                            obs.rd.off + obs.rd.ret)

\* Such a read has returned a byte that the write changed, at an offset
\* inside the page.
C15_Witness ==
    /\ obs.rd.ret > 0 /\ obs.rd.follows /\ obs.rd.hit /\ obs.wr.cached
    /\ obs.rd.off % PAGE_SIZE # 0
    /\ \E i \in 1..obs.rd.ret : obs.rd.out[i] # 0

\* The entry at the tail of the free list: the last one get_free_buffer()
\* will take.
FreeListTail ==
    IF buffer_head = NULL THEN NULL ELSE buffer_table[buffer_head].prev_free

\* The first bread() on fresh caches has returned an entry and the caller has
\* released it with brelse(); kmalloc and read_block succeeded.
ColdReadReleased == obs.cold.stage = "released"

\* C18 (as stated): after the first bread(dev, block, 1024) on fresh caches
\* and the release of its entry, exactly one read_block was issued, the entry
\* is VALID and at the tail of the free list, and kstat.buffers is 1.
C18_ColdRead ==
    ColdReadReleased =>
        /\ obs.cold.reads = 1
        /\ buffer_table[obs.cold.buf].valid
        /\ FreeListTail = obs.cold.buf
        /\ kstat.buffers = 1

\* C18 (amended): the same, with kstat.buffers equal to the size of the one
\* data frame getblk() allocated, PAGE_SIZE / 1024 KiB.
C18_ColdReadFrame ==
    ColdReadReleased =>
        /\ obs.cold.reads = 1
        /\ buffer_table[obs.cold.buf].valid
        /\ FreeListTail = obs.cold.buf
        /\ buffer_table[obs.cold.buf].data
        /\ kstat.buffers = KIB_PER_PAGE

C18_Witness ==
    /\ ColdReadReleased
    /\ obs.cold.buf \in FreeList
    /\ Cardinality(FreeList) = NR_BUFFERS

\* The free list in the order get_free_buffer() will take its entries: from
\* buffer_head along next_free, once around.
RECURSIVE FreeWalk(_, _, _)
FreeWalk(x, n, acc) ==
    IF x = NULL \/ n = 0 THEN acc
    ELSE IF buffer_table[x].next_free = buffer_head
         THEN Append(acc, x)
         ELSE FreeWalk(buffer_table[x].next_free, n - 1, Append(acc, x))

FreeSeq == FreeWalk(buffer_head, NR_BUFFERS, <<>>)

\* In this step task t has released entry b with brelse(): called by the task
\* on the entry bread() gave it (brelse or bwrite), or by getblk() and bread()
\* when kmalloc or read_block failed.
Released(t, b) ==
    /\ b # NULL
    /\ proc'[t].pc = "idle" /\ proc'[t].held = NULL
    /\ \/ proc[t].held = b
       \/ /\ proc[t].pc \in {"getblk_kmalloc", "bread_read"}
          /\ proc[t].buf = b

\* In this step getblk() of task t found no entry with its key and took one
\* with get_free_buffer().
TookFree(t) ==
    /\ proc[t].pc \in {"idle", "getblk", "gfb_getblk"}
    /\ proc'[t].pc \in {"getblk_write", "getblk_kmalloc", "bread_read"}
    /\ search_buffer_hash(K, proc'[t].dev, proc'[t].block, proc'[t].size)
          = NULL

\* C19: get_free_buffer() takes the head of the free list; brelse() of a
\* VALID entry appends it behind every entry of the list, in their order;
\* brelse() of an entry that is not VALID puts it in front of them, at the
\* head.
C19_FreeListOrder ==
    [][\A t \in Tasks :
         /\ TookFree(t) =>
               /\ proc'[t].buf = buffer_head
               /\ proc'[t].buf \notin FreeList'
         /\ \A b \in Buffers :
               Released(t, b) =>
                   IF buffer_table'[b].valid
                   THEN FreeSeq' = Append(FreeSeq, b)
                   ELSE FreeSeq' = <<b>> \o FreeSeq]_vars

\* A VALID entry that bread() returned and brelse() released is the tail,
\* behind an entry that bread() released after read_block failed, the head.
C19_Witness ==
    \E b, e \in Buffers :
        /\ b # e
        /\ FreeListTail = b /\ buffer_table[b].valid /\ b \in Hashed
        /\ buffer_head = e /\ ~buffer_table[e].valid /\ e \in Hashed
        /\ ~buffer_table[e].locked /\ ~buffer_table[b].locked
        /\ Cardinality(FreeList) = NR_BUFFERS

\* Task t is inside reclaim_buffers() and has gone round the free list more
\* than twice without suspending: the entry recorded in `first` is not on the
\* list and no entry of the list has a data frame, so every further pass pops
\* the head and puts it back at the tail, and no other task can run to change
\* the list.
ReclaimSpins(t) == proc[t].pc = "spin" /\ proc[t].first # NULL

\* C20: reclaim_buffers() returns, also when another task took the entry
\* recorded in `first` while reclaim_buffers() was suspended: it never goes
\* round the free list for ever.
C20_ReclaimReturns == \A t \in Tasks : ~ReclaimSpins(t)

\* In this step task t, woken from the sleep of get_free_buffer() on a LOCKED
\* head (line 194), runs line 190 again and reads the flags of buffer_head.
InspectsHead(t) ==
    /\ proc[t].pc \in {"gfb_getblk", "gfb_reclaim"}
    /\ proc[t].sleep = "none"
    /\ proc'[t] # proc[t]

\* C22: whenever get_free_buffer() inspects buffer_head after it slept,
\* buffer_head is not null; and an entry that getblk() gets from
\* get_free_buffer() was the head of the free list and not LOCKED when it was
\* taken.
C22_HeadNeverNull ==
    [][\A t \in Tasks :
         /\ InspectsHead(t) => buffer_head # NULL
         /\ TookFree(t) =>
               /\ proc'[t].buf \in FreeList
               /\ ~buffer_table[proc'[t].buf].locked]_vars

\* The places where a task has called write_block() for proc[t].buf and waits
\* for it: sync_buffers (line 366), getblk (277) and reclaim_buffers (417),
\* all through sync_one_buffer().
WritePcs == {"sync_write", "getblk_write", "reclaim_write"}

\* C21: every write_block() issued by sync_buffers, getblk or reclaim_buffers
\* is for an entry that is DIRTY and has a data frame; an entry that stays
\* DIRTY keeps its (dev, block, size) key, and the frame of an entry that is
\* still DIRTY is never freed.
C21_DirtyWrittenToItsBlock ==
    [][/\ \A t \in Tasks :
            proc'[t].pc \in WritePcs =>
                /\ buffer_table'[proc'[t].buf].dirty
                /\ buffer_table'[proc'[t].buf].data
       /\ \A b \in Buffers :
            /\ (buffer_table[b].dirty /\ buffer_table'[b].dirty) =>
                  /\ buffer_table'[b].dev = buffer_table[b].dev
                  /\ buffer_table'[b].block = buffer_table[b].block
                  /\ buffer_table'[b].size = buffer_table[b].size
            /\ (buffer_table[b].data /\ ~buffer_table'[b].data) =>
                  ~buffer_table'[b].dirty]_vars

=============================================================================
